---- MODULE Spec2Model ----
(***************************************************************************)
(* State-machine model of the Express Entry draw manager                   *)
(* (src/Draws.py, class ExpressEntryManager) and of the automation script  *)
(* that drives it (src/Data/automation.py).                                *)
(*                                                                         *)
(* The persisted collection is the file EE.json.  The upstream feed is an  *)
(* external collaborator: every fetch draws its answer (a list of raw      *)
(* rounds, or a transport failure) from a bounded set.  File writes may    *)
(* fail, before or after the file was truncated.                           *)
(*                                                                         *)
(* Spec is the manager with the script.  parse_draw_datetime, the          *)
(* statistics of analyze_draws, analyze_draw_times and process_draw_data   *)
(* are functions of their input alone; each is applied on its own to every *)
(* input of a bounded set, in SpecParse, SpecSummary, SpecTimes and        *)
(* SpecProjection.  SpecCsv is the earlier manager of src/Data/Draws.py,   *)
(* which keeps EE.csv next to EE.json.                                     *)
(***************************************************************************)
EXTENDS Integers, Sequences, FiniteSets, TLC

\* ---- bounds of the model ------------------------------------------------
MaxDrawNumber == 2      \* draw numbers 1..MaxDrawNumber; a feed lists each at most once
MaxDate == 2            \* calendar dates 1..MaxDate (ISO strings, ordered as the numbers)
MaxClock == 1           \* wall clock, in seconds, 0..MaxClock
MaxRounds == 2          \* rounds in a collection whose statistics are computed
MaxDraws == 3           \* rounds in a collection whose draw times are analyzed
MaxRaw == 2             \* raw rounds in a list that is projected

\* ---- values ---------------------------------------------------------------
\* A key that is missing from a raw record (NaN once the records are in a DataFrame).
Absent == 0

DrawNumbers == 1..MaxDrawNumber
DrawDates == 1..MaxDate

\* The raw rounds of the feed, restricted to the columns the manager reads here.
RawRecords == [drawNumber : DrawNumbers, drawDate : DrawDates \cup {Absent}]

\* What the upstream feed can answer: every list of rounds with distinct numbers.
Feeds ==
  {f \in UNION {[1..k -> RawRecords] : k \in 0..MaxDrawNumber} :
     \A i, j \in 1..Len(f) : i # j => f[i].drawNumber # f[j].drawNumber}

\* Outcome of open(path, "w") + json.dump: done, open() raised (file untouched),
\* or the dump raised after open() truncated the file.
WriteOutcomes == {"ok", "fail_open", "fail_partial"}

\* ---- state ----------------------------------------------------------------
VARIABLES
  ee_json,             \* Data/EE.json: absent, unreadable, or {rounds, metadata.updated_at}
  analysis_json,       \* Data/analysis.json (write-only output)
  time_analysis_json,  \* Data/time_analysis.json (write-only output)
  now,                 \* the wall clock
  last,                \* the most recent manager call: its outcome and log levels, the
                       \* rounds update_data fetched when no transfer or write failed,
                       \* and whether the update_data before it fetched the same rounds
  pc,                  \* position of the automation script
  inv,                 \* what the running invocation of the script did so far
  ee_csv,              \* EE.csv of the manager of src/Data/Draws.py: absent, unreadable,
                       \* or the rows written by to_csv
  pure_call            \* a method that is a function of its arguments alone, applied
                       \* on its own: the input drawn for it and, once applied, the result

vars ==
  <<ee_json, analysis_json, time_analysis_json, now, last, pc, inv, ee_csv, pure_call>>

NoFile == [kind |-> "absent", rounds |-> <<>>, updated_at |-> 0]
Corrupt == [kind |-> "corrupt", rounds |-> <<>>, updated_at |-> 0]
JsonFile(rounds, t) == [kind |-> "json", rounds |-> rounds, updated_at |-> t]

NoCsv == [kind |-> "absent", rows |-> <<>>]
CorruptCsv == [kind |-> "corrupt", rows |-> <<>>]
CsvFile(rows) == [kind |-> "csv", rows |-> rows]

NoOutput == [kind |-> "absent", total |-> 0, stamp |-> 0]

Failure == [ok |-> FALSE, rounds |-> <<>>]
Fetched(f) == [ok |-> TRUE, rounds |-> f]
FetchResults == {Failure} \cup {Fetched(f) : f \in Feeds}

NoCall ==
  [op |-> "none", data |-> Failure, repeat |-> FALSE, write |-> "none",
   failed |-> "none", raised |-> FALSE, ret |-> <<FALSE, 0, 0>>, log |-> {}]

NoPureCall == [fn |-> "none"]

NoInvocation ==
  [creds |-> TRUE, stages |-> <<>>, needs_update |-> FALSE, sync |-> "none",
   error |-> FALSE, exit |-> -1]

\* ---- helpers of the manager -------------------------------------------------
\* pandas: a column exists when at least one record carries the key.
HasColumn(rounds, col) == \E i \in 1..Len(rounds) : rounds[i][col] # Absent

\* get_existing_data: None when the file is missing or cannot be read.
get_existing_data(f) ==
  IF f.kind = "json" THEN [ok |-> TRUE, df |-> f.rounds] ELSE [ok |-> FALSE, df |-> <<>>]

get_existing_data_log(f) ==
  CASE f.kind = "json" -> {"info"}
    [] f.kind = "corrupt" -> {"error"}
    [] OTHER -> {}

existing_count(f) == IF get_existing_data(f).ok THEN Len(get_existing_data(f).df) ELSE 0

\* sort_values('drawDate', ascending=False): descending, NaN last, ties in feed order.
RECURSIVE InsertDesc(_, _)
InsertDesc(s, r) ==
  IF s = <<>> THEN <<r>>
  ELSE IF Head(s).drawDate >= r.drawDate
       THEN <<Head(s)>> \o InsertDesc(Tail(s), r)
       ELSE <<r>> \o s

RECURSIVE SortByDrawDate(_)
SortByDrawDate(s) ==
  IF s = <<>> THEN <<>>
  ELSE InsertDesc(SortByDrawDate(SubSeq(s, 1, Len(s) - 1)), s[Len(s)])

\* process_draw_data: KeyError when the frame has no drawDate column.
process_draw_data(rounds) ==
  IF HasColumn(rounds, "drawDate")
  THEN [ok |-> TRUE, df |-> SortByDrawDate(rounds)]
  ELSE [ok |-> FALSE, df |-> <<>>]

write_json(old, content, w) ==
  CASE w = "ok" -> content
    [] w = "fail_open" -> old
    [] OTHER -> Corrupt

\* The comparison of line 207 with != for ==.
NumberOfDrawsUnchanged_ne(existing, old_count, new_count) ==
  old_count # new_count /\ existing.ok

\* update_data, line 207: "Only update if there are changes".
NumberOfDrawsUnchanged(existing, old_count, new_count) ==
  old_count = new_count /\ existing.ok

\* update_data with the file opened for writing before the fetch is made.
fetch_json_data_raised_truncating(f) == Corrupt

\* update_data when fetch_json_data raises (lines 69-71): control goes from line 190
\* to the except of lines 221-223, past both open(..., "w"); the file is as it was.
fetch_json_data_raised(f) == f

\* update_data: the file it leaves and what it returns, for the fetch answer `data`
\* and the write outcome `w`.  Every exception ends in "return False, 0, 0".
update_data_call(data, w) ==
  LET existing == get_existing_data(ee_json)
      old_count == existing_count(ee_json)
      new_df == process_draw_data(data.rounds)
      new_count == Len(new_df.df)
      unchanged == NumberOfDrawsUnchanged(existing, old_count, new_count)
      written == JsonFile(data.rounds, now)
      loaded == get_existing_data_log(ee_json)
      call(failed, wr, ret, log) ==
        [op |-> "update_data",
         data |-> IF failed \in {"none", "process"} THEN data ELSE Failure,
         repeat |-> last.op = "update_data" /\ last.data.ok /\ data = last.data,
         write |-> wr, failed |-> failed, raised |-> FALSE, ret |-> ret, log |-> log]
  IN  IF ~data.ok
      THEN [ee |-> fetch_json_data_raised(ee_json),
            last |-> call("fetch", "none", <<FALSE, 0, 0>>, {"error"})]
      ELSE IF ~new_df.ok
      THEN [ee |-> ee_json,
            last |-> call("process", "none", <<FALSE, 0, 0>>, {"error"})]
      ELSE IF w # "ok"
      THEN [ee |-> write_json(ee_json, written, w),
            last |-> call("write", w, <<FALSE, 0, 0>>,
                          loaded \cup {"error"} \cup (IF unchanged THEN {"info"} ELSE {}))]
      ELSE [ee |-> written,
            last |-> call("none", w, <<~unchanged, old_count, new_count>>,
                          loaded \cup {"info"})]

\* check_data_freshness asking for an update whenever the two counts differ.
check_data_freshness_ret_differ(f, data) ==
  IF data.ok
  THEN <<existing_count(f) # Len(data.rounds), existing_count(f), Len(data.rounds)>>
  ELSE <<FALSE, existing_count(f), 0>>

\* check_data_freshness answering a failed fetch as update_data does, with (False, 0, 0).
check_data_freshness_ret_zero(f, data) ==
  IF data.ok
  THEN <<existing_count(f) < Len(data.rounds), existing_count(f), Len(data.rounds)>>
  ELSE <<FALSE, 0, 0>>

\* check_data_freshness: what it returns for the fetch answer `data`; the bare
\* except turns every failure of the fetch into (False, existing_count, 0).
check_data_freshness_ret(f, data) ==
  IF data.ok
  THEN <<existing_count(f) < Len(data.rounds), existing_count(f), Len(data.rounds)>>
  ELSE <<FALSE, existing_count(f), 0>>

check_data_freshness_call(data) ==
  [op |-> "check_data_freshness", data |-> Failure, repeat |-> FALSE, write |-> "none",
   failed |-> IF data.ok THEN "none" ELSE "fetch", raised |-> FALSE,
   ret |-> check_data_freshness_ret(ee_json, data),
   log |-> get_existing_data_log(ee_json) \cup (IF data.ok THEN {} ELSE {"error"})]

\* analyze_draws (with the analyze_draw_times it calls): the three files it leaves
\* and whether it returns the analysis (None otherwise).  wa, wt: does the write of
\* analysis.json / time_analysis.json succeed; we: outcome of rewriting EE.json.
analyze_draws_call(wa, wt, we) ==
  LET call(ok, failed, wr, log) ==
        [op |-> "analyze_draws", data |-> Failure, repeat |-> FALSE, write |-> wr,
         failed |-> failed,
         raised |-> FALSE, ret |-> <<ok, 0, 0>>, log |-> log]
      same(failed, log) ==
        [ee |-> ee_json, analysis |-> analysis_json, time |-> time_analysis_json,
         last |-> call(FALSE, failed, "none", log)]
      analysis == [kind |-> "json", total |-> Len(ee_json.rounds),
                   stamp |-> ee_json.updated_at]
      time == IF wt THEN [kind |-> "json", total |-> Len(ee_json.rounds), stamp |-> now]
              ELSE time_analysis_json
      timelog == IF wt THEN {"info"} ELSE {"error"}
  IN  IF ee_json.kind = "absent" THEN same("no_file", {})
      ELSE IF ee_json.kind = "corrupt" THEN same("read", {"error"})
      ELSE IF ~HasColumn(ee_json.rounds, "drawDate") THEN same("read", {"error"})
      ELSE IF ~wa THEN same("write", {"error"})
      ELSE [ee |-> write_json(ee_json, ee_json, we), analysis |-> analysis, time |-> time,
            last |-> IF we = "ok"
                     THEN call(TRUE, "none", we, timelog)
                     ELSE call(FALSE, "write", we, timelog \cup {"error"})]

\* send_email without its try/except: the SMTP error leaves the method.
send_email_call_raising(sent) ==
  [op |-> "send_email", data |-> Failure, repeat |-> FALSE, write |-> "none",
   failed |-> IF sent THEN "none" ELSE "smtp", raised |-> ~sent,
   ret |-> <<sent, 0, 0>>, log |-> IF sent THEN {"info"} ELSE {}]

\* send_email: the whole body is in one try; any exception of building or sending
\* the message is logged as an error and the method returns.  It touches no file.
send_email_call(sent) ==
  [op |-> "send_email", data |-> Failure, repeat |-> FALSE, write |-> "none",
   failed |-> IF sent THEN "none" ELSE "smtp", raised |-> FALSE,
   ret |-> <<sent, 0, 0>>, log |-> IF sent THEN {"info"} ELSE {"error"}]

\* get_latest_draws: the first two rows of the persisted collection, as stored.
get_latest_draws(f) ==
  LET df == get_existing_data(f)
  IN  [latest |-> IF df.ok /\ Len(df.df) > 0 THEN <<df.df[1]>> ELSE <<>>,
       previous |-> IF df.ok /\ Len(df.df) > 1 THEN <<df.df[2]>> ELSE <<>>]

\* format_draw_info returns its 7 values only when days_since and days_between were
\* both assigned: the latest draw has a date and so has a previous draw.  Otherwise it
\* returns None or raises, and the unpacking in the script raises.
format_draw_info_ok(latest, previous) ==
  /\ latest # <<>>
  /\ latest[1].drawDate # Absent
  /\ previous # <<>>
  /\ previous[1].drawDate # Absent

\* ---- parse_draw_datetime: strings ----------------------------------------------
\* A string is the sequence of its lexical atoms: a blank, one of the punctuation
\* marks , : -, a maximal run of digits (value n written with w digits, "03" is
\* n = 3, w = 2) or a maximal run of letters (s).  The words of DateTimeStrings are
\* such that none contains "at", "AM", "PM", "pm" or "202" inside another word, so
\* that str.replace and the regular expressions act on whole atoms.
Blank == [t |-> " ", n |-> 0, w |-> 0, s |-> ""]
Comma == [t |-> ",", n |-> 0, w |-> 0, s |-> ""]
Colon == [t |-> ":", n |-> 0, w |-> 0, s |-> ""]
Dash == [t |-> "-", n |-> 0, w |-> 0, s |-> ""]
Num(n, w) == [t |-> "num", n |-> n, w |-> w, s |-> ""]
Word(s) == [t |-> "word", n |-> 0, w |-> 0, s |-> s]

IsNum(a) == a.t = "num"
IsWord(a, s) == a.t = "word" /\ a.s = s

RECURSIVE Pow10(_)
Pow10(k) == IF k = 0 THEN 1 ELSE 10 * Pow10(k - 1)

\* the i-th digit of a number as written, and the value of its first / last k digits
DigitAt(a, i) == (a.n \div Pow10(a.w - i)) % 10
FirstDigits(a, k) == IF a.w <= k THEN a.n ELSE a.n \div Pow10(a.w - k)
LastDigits(a, k) == IF a.w <= k THEN a.n ELSE a.n % Pow10(k)

\* the tail of a string from position i on
From(str, i) == IF i > Len(str) THEN <<>> ELSE SubSeq(str, i, Len(str))

\* str.strip()
RECURSIVE lstrip(_)
lstrip(str) ==
  IF str # <<>> /\ str[1] = Blank THEN lstrip(Tail(str)) ELSE str

RECURSIVE rstrip(_)
rstrip(str) ==
  IF str # <<>> /\ str[Len(str)] = Blank THEN rstrip(SubSeq(str, 1, Len(str) - 1))
  ELSE str

strip(str) == rstrip(lstrip(str))

\* str.split(): the maximal runs of non-blank atoms
RECURSIVE split(_)
split(str) ==
  LET body == lstrip(str)
      k == IF \E i \in 1..Len(body) : body[i] = Blank
           THEN (CHOOSE i \in 1..Len(body) :
                   body[i] = Blank /\ \A j \in 1..(i - 1) : body[j] # Blank) - 1
           ELSE Len(body)
  IN  IF body = <<>> THEN <<>>
      ELSE <<SubSeq(body, 1, k)>> \o split(From(body, k + 1))

\* str.count("202"): non-overlapping occurrences, which only digits can form
RECURSIVE count202_in(_, _)
count202_in(a, i) ==
  IF i + 2 > a.w THEN 0
  ELSE IF DigitAt(a, i) = 2 /\ DigitAt(a, i + 1) = 0 /\ DigitAt(a, i + 2) = 2
       THEN 1 + count202_in(a, i + 3)
       ELSE count202_in(a, i + 1)

RECURSIVE count202(_)
count202(str) ==
  IF str = <<>> THEN 0
  ELSE (IF IsNum(str[1]) THEN count202_in(str[1], 1) ELSE 0) + count202(Tail(str))

\* "c" in part, for a punctuation mark c
Contains(str, t) == \E i \in 1..Len(str) : str[i].t = t

\* the number of blanks at the head of a string (what \s* and \s+ consume)
RECURSIVE Blanks(_)
Blanks(str) == IF str # <<>> /\ str[1] = Blank THEN 1 + Blanks(Tail(str)) ELSE 0

\* ---- parse_draw_datetime: datetime.strptime ------------------------------------
MonthNumber(s) ==
  CASE s = "January" -> 1 [] s = "February" -> 2 [] s = "March" -> 3
    [] s = "April" -> 4 [] s = "May" -> 5 [] s = "June" -> 6
    [] s = "July" -> 7 [] s = "August" -> 8 [] s = "September" -> 9
    [] s = "October" -> 10 [] s = "November" -> 11 [] s = "December" -> 12
    [] OTHER -> 0

IsLeap(y) == y % 4 = 0 /\ (y % 100 # 0 \/ y % 400 = 0)

DaysInMonth(y, m) ==
  IF m = 2 THEN (IF IsLeap(y) THEN 29 ELSE 28)
  ELSE IF m \in {4, 6, 9, 11} THEN 30 ELSE 31

AmPm == {"AM", "PM", "am", "pm"}

\* the fields of a datetime; strptime starts from 1900-01-01 00:00:00
Timestamp(y, mo, d, h, mi, sec) ==
  [year |-> y, month |-> mo, day |-> d, hour |-> h, minute |-> mi, second |-> sec]

\* what strptime answers: the datetime, or ValueError
ValueError == [ok |-> FALSE, ts |-> Timestamp(0, 0, 0, 0, 0, 0)]
Parsed(ts) == [ok |-> TRUE, ts |-> ts]

\* does the atom match the directive (the regular expression strptime builds for it)
Directive(item, a) ==
  CASE item = "%B" -> a.t = "word" /\ MonthNumber(a.s) # 0
    [] item = "%d" -> IsNum(a) /\ a.w \in {1, 2} /\ a.n \in 1..31
    [] item = "%m" -> IsNum(a) /\ a.w \in {1, 2} /\ a.n \in 1..12
    [] item = "%Y" -> IsNum(a) /\ a.w = 4
    [] item = "%H" -> IsNum(a) /\ a.w \in {1, 2} /\ a.n <= 23
    [] item = "%M" -> IsNum(a) /\ a.w \in {1, 2} /\ a.n <= 59
    [] item = "%S" -> IsNum(a) /\ a.w \in {1, 2} /\ a.n <= 61
    [] item = "%p" -> a.t = "word" /\ a.s \in AmPm
    [] item \in {",", ":", "-"} -> a.t = item
    [] OTHER -> IsWord(a, item)

\* the field a directive sets.  %p sets no field: strptime applies AM/PM to the hour
\* only when the hour was read with %I, and no template here uses %I.
SetField(ts, item, a) ==
  CASE item = "%B" -> [ts EXCEPT !.month = MonthNumber(a.s)]
    [] item = "%d" -> [ts EXCEPT !.day = a.n]
    [] item = "%m" -> [ts EXCEPT !.month = a.n]
    [] item = "%Y" -> [ts EXCEPT !.year = a.n]
    [] item = "%H" -> [ts EXCEPT !.hour = a.n]
    [] item = "%M" -> [ts EXCEPT !.minute = a.n]
    [] item = "%S" -> [ts EXCEPT !.second = a.n]
    [] OTHER -> ts

\* match the whole string against the format; a blank of the format is \s+
RECURSIVE MatchFormat(_, _, _)
MatchFormat(str, fmt, ts) ==
  IF fmt = <<>> THEN (IF str = <<>> THEN Parsed(ts) ELSE ValueError)
  ELSE IF fmt[1] = " "
       THEN (IF Blanks(str) >= 1
             THEN MatchFormat(From(str, Blanks(str) + 1), Tail(fmt), ts)
             ELSE ValueError)
  ELSE IF str # <<>> /\ Directive(fmt[1], str[1])
       THEN MatchFormat(Tail(str), Tail(fmt), SetField(ts, fmt[1], str[1]))
  ELSE ValueError

\* datetime.strptime(str, fmt): ValueError when the string does not match or the
\* fields are no date and time
strptime(str, fmt) ==
  LET m == MatchFormat(str, fmt, Timestamp(1900, 1, 1, 0, 0, 0))
  IN  IF m.ok /\ m.ts.year >= 1 /\ m.ts.day <= DaysInMonth(m.ts.year, m.ts.month)
         /\ m.ts.second <= 59
      THEN m
      ELSE ValueError

\* ---- parse_draw_datetime: the repairs -------------------------------------------
\* the atom at position i, or the end of the string
End == [t |-> "end", n |-> 0, w |-> 0, s |-> ""]
At(str, i) == IF i \in 1..Len(str) THEN str[i] ELSE End

\* re.search: the leftmost of the positions where the pattern matches, 0 when none
Search(positions) ==
  IF positions # {} THEN CHOOSE i \in positions : \A j \in positions : i <= j ELSE 0

\* Pattern 1 (lines 108-120): the date and time of the first part that starts with
\* "202", holds a "-" and is followed by a part holding a ":".  A ValueError of
\* strptime leaves the loop through the except, and the method goes on.
iso_format == <<"%Y", "-", "%m", "-", "%d", " ", "%H", ":", "%M", ":", "%S", " ", "UTC">>

startswith202(part) ==
  part # <<>> /\ IsNum(part[1]) /\ part[1].w >= 3 /\ FirstDigits(part[1], 3) = 202

index(parts, part) == CHOOSE j \in 1..Len(parts) :
                        parts[j] = part /\ \A k \in 1..(j - 1) : parts[k] # part

RECURSIVE Pattern1_loop(_, _)
Pattern1_loop(parts, i) ==
  IF i > Len(parts) THEN ValueError
  ELSE LET part == parts[i]
           iso_index == index(parts, part)
           iso_str == parts[iso_index] \o <<Blank>> \o parts[iso_index + 1]
                        \o <<Blank, Word("UTC")>>
       IN  IF /\ startswith202(part)
              /\ Contains(part, "-")
              /\ \E j \in iso_index..Len(parts) : Contains(parts[j], ":")
              /\ iso_index + 1 <= Len(parts)
              /\ Contains(parts[iso_index + 1], ":")
           THEN strptime(iso_str, iso_format)
           ELSE Pattern1_loop(parts, i + 1)

\* parse_draw_datetime without Pattern 1.
Pattern1_skipped(str) == ValueError

Pattern1(str) ==
  IF count202(str) > 1 THEN Pattern1_loop(split(str), 1) ELSE ValueError

\* Pattern 2 (lines 123-124): datetime_str.replace("at", "at ") when the string
\* holds "at" and nowhere "at "
RECURSIVE replace_at(_)
replace_at(str) ==
  IF str = <<>> THEN <<>>
  ELSE IF IsWord(str[1], "at") THEN <<str[1], Blank>> \o replace_at(Tail(str))
  ELSE <<str[1]>> \o replace_at(Tail(str))

Pattern2(str) ==
  IF /\ \E i \in 1..Len(str) : IsWord(str[i], "at")
     /\ ~\E i \in 1..Len(str) : IsWord(str[i], "at") /\ At(str, i + 1) = Blank
  THEN replace_at(str)
  ELSE str

\* Pattern 3 (line 127): datetime_str.replace("  ", " "), one pass from the left
RECURSIVE Pattern3(_)
Pattern3(str) ==
  IF str = <<>> THEN <<>>
  ELSE IF str[1] = Blank /\ At(str, 2) = Blank THEN <<Blank>> \o Pattern3(From(str, 3))
  ELSE <<str[1]>> \o Pattern3(Tail(str))

\* Pattern 4 (lines 131-136): (\d{1,2}:\d{2}:\d{2})\s*(AM|PM), ignoring case
time_am_pm(str, i) ==
  /\ IsNum(At(str, i))
  /\ At(str, i + 1) = Colon
  /\ IsNum(At(str, i + 2)) /\ At(str, i + 2).w = 2
  /\ At(str, i + 3) = Colon
  /\ IsNum(At(str, i + 4)) /\ At(str, i + 4).w = 2
  /\ LET a == At(str, i + 5 + Blanks(From(str, i + 5)))
     IN  a.t = "word" /\ a.s \in AmPm

RECURSIVE remove_blank_word(_, _)
remove_blank_word(str, s) ==
  IF str = <<>> THEN <<>>
  ELSE IF str[1] = Blank /\ IsWord(At(str, 2), s) THEN remove_blank_word(From(str, 3), s)
  ELSE <<str[1]>> \o remove_blank_word(Tail(str), s)

RECURSIVE remove_word(_, _)
remove_word(str, s) ==
  IF str = <<>> THEN <<>>
  ELSE IF IsWord(str[1], s) THEN remove_word(Tail(str), s)
  ELSE <<str[1]>> \o remove_word(Tail(str), s)

\* Pattern 4 removing the suffix whatever the hour is.
Pattern4_always(str) ==
  LET i == Search({p \in 1..Len(str) : time_am_pm(str, p)})
      am_pm == At(str, i + 5 + Blanks(From(str, i + 5))).s
  IN  IF i # 0 THEN remove_word(remove_blank_word(str, am_pm), am_pm) ELSE str

Pattern4(str) ==
  LET i == Search({p \in 1..Len(str) : time_am_pm(str, p)})
      hour == LastDigits(At(str, i), 2)
      am_pm == At(str, i + 5 + Blanks(From(str, i + 5))).s
  IN  IF i # 0 /\ hour >= 13
      THEN remove_word(remove_blank_word(str, am_pm), am_pm)
      ELSE str

\* Pattern 5 (line 139): re.sub(r',\s*at\s+', ' at ', datetime_str)
RECURSIVE Pattern5(_)
Pattern5(str) ==
  IF str = <<>> THEN <<>>
  ELSE LET b == Blanks(Tail(str))
           after == From(str, b + 3)
       IN  IF str[1] = Comma /\ IsWord(At(str, b + 2), "at") /\ Blanks(after) >= 1
           THEN <<Blank, Word("at"), Blank>> \o Pattern5(From(after, Blanks(after) + 1))
           ELSE <<str[1]>> \o Pattern5(Tail(str))

\* Pattern 6 (lines 143-146): ([A-Za-z]+)\s+(\d{1,2})\s+(\d{4}); the numbers of
\* DateTimeStrings have at most four digits, so \d{4} is a whole number.
date_part(str, i) ==
  LET d == i + 1 + Blanks(From(str, i + 1))
      y == d + 1 + Blanks(From(str, d + 1))
  IN  /\ At(str, i).t = "word"
      /\ d > i + 1
      /\ IsNum(At(str, d)) /\ At(str, d).w <= 2
      /\ y > d + 1
      /\ IsNum(At(str, y)) /\ At(str, y).w = 4

\* Pattern 6 putting the comma after the month.
RECURSIVE insert_comma_after_month(_, _, _, _)
insert_comma_after_month(str, month, day, year) ==
  IF str = <<>> THEN <<>>
  ELSE IF /\ str[1] = month /\ At(str, 2) = Blank /\ At(str, 3) = day
          /\ At(str, 4) = Blank /\ At(str, 5) = year
       THEN <<month, Comma, Blank, day, Blank, year>>
              \o insert_comma_after_month(From(str, 6), month, day, year)
       ELSE <<str[1]>> \o insert_comma_after_month(Tail(str), month, day, year)

RECURSIVE insert_comma(_, _, _, _)
insert_comma(str, month, day, year) ==
  IF str = <<>> THEN <<>>
  ELSE IF /\ str[1] = month /\ At(str, 2) = Blank /\ At(str, 3) = day
          /\ At(str, 4) = Blank /\ At(str, 5) = year
       THEN <<month, Blank, day, Comma, Blank, year>>
              \o insert_comma(From(str, 6), month, day, year)
       ELSE <<str[1]>> \o insert_comma(Tail(str), month, day, year)

Pattern6(str) ==
  LET i == Search({p \in 1..Len(str) : date_part(str, p)})
      d == i + 1 + Blanks(From(str, i + 1))
      y == d + 1 + Blanks(From(str, d + 1))
  IN  IF i # 0 /\ ~Contains(str, ",")
      THEN insert_comma(str, str[i], str[d], str[y])
      ELSE str

\* lines 122-146: the string the templates are tried on
repair(str) == Pattern6(Pattern5(Pattern4(Pattern3(Pattern2(str)))))

\* ---- parse_draw_datetime: templates and the method ------------------------------
\* lines 149-160, in the order they are tried
formats_to_try ==
  << <<"%B", " ", "%d", ",", " ", "%Y", " ", "at", " ", "%H", ":", "%M", ":", "%S", " ", "UTC">>,
     <<"%B", " ", "%d", ",", " ", "%Y", " ", "%H", ":", "%M", ":", "%S", " ", "UTC">>,
     <<"%B", " ", "%d", ",", " ", "%Y", " ", "%H", ":", "%M", ":", "%S", " ", "%p", " ", "UTC">>,
     <<"%B", " ", "%d", ",", "%Y", " ", "%H", ":", "%M", ":", "%S", " ", "UTC">>,
     <<"%B", " ", "%d", ",", " ", "%Y", ",", " ", "%H", ":", "%M", ":", "%S", " ", "UTC">>,
     <<"%B", " ", "%d", ",", " ", "%Y", ",", " ", "at", " ", "%H", ":", "%M", ":", "%S", " ", "UTC">>,
     <<"%B", " ", "%d", " ", "%Y", " ", "%H", ":", "%M", ":", "%S", " ", "UTC">>,
     <<"%Y", "-", "%m", "-", "%d", " ", "%H", ":", "%M", ":", "%S", " ", "UTC">>,
     <<"%B", " ", "%d", ",", " ", "%Y", " ", "%H", ":", "%M", ":", "%S">>,
     <<"%B", " ", "%d", ",", " ", "%Y", " ", "at", " ", "%H", ":", "%M", ":", "%S">> >>

\* lines 162-166: the answer of the first template that raises no ValueError
RECURSIVE try_formats(_, _)
try_formats(str, k) ==
  IF k > Len(formats_to_try) THEN ValueError
  ELSE IF strptime(str, formats_to_try[k]).ok THEN strptime(str, formats_to_try[k])
  ELSE try_formats(str, k + 1)

\* lines 169-182: ([A-Za-z]+)\s+(\d{1,2}),?\s+(\d{4}) and (\d{1,2}:\d{2}:\d{2})
date_match(str, i) ==
  LET d == i + 1 + Blanks(From(str, i + 1))
      c == IF At(str, d + 1) = Comma THEN d + 2 ELSE d + 1
      y == c + Blanks(From(str, c))
  IN  /\ At(str, i).t = "word"
      /\ d > i + 1
      /\ IsNum(At(str, d)) /\ At(str, d).w <= 2
      /\ y > c
      /\ IsNum(At(str, y)) /\ At(str, y).w = 4

time_match(str, i) ==
  /\ IsNum(At(str, i))
  /\ At(str, i + 1) = Colon
  /\ IsNum(At(str, i + 2)) /\ At(str, i + 2).w = 2
  /\ At(str, i + 3) = Colon
  /\ IsNum(At(str, i + 4)) /\ At(str, i + 4).w >= 2

final_format == <<"%B", " ", "%d", " ", "%Y", " ", "%H", ":", "%M", ":", "%S">>

final_string(str) ==
  LET i == Search({p \in 1..Len(str) : date_match(str, p)})
      d == i + 1 + Blanks(From(str, i + 1))
      c == IF At(str, d + 1) = Comma THEN d + 2 ELSE d + 1
      y == c + Blanks(From(str, c))
      t == Search({p \in 1..Len(str) : time_match(str, p)})
      hour == Num(LastDigits(str[t], 2), IF str[t].w < 2 THEN str[t].w ELSE 2)
      second == Num(FirstDigits(str[t + 4], 2), 2)
  IN  <<str[i], Blank, str[d], Blank, str[y], Blank,
        hour, Colon, str[t + 2], Colon, second>>

\* what the method hands back: a datetime, None, or an exception leaving it
Returned(ts) == [kind |-> "timestamp", ts |-> ts]
None == [kind |-> "none", ts |-> Timestamp(0, 0, 0, 0, 0, 0)]
Raised == [kind |-> "raised", ts |-> Timestamp(0, 0, 0, 0, 0, 0)]

\* the final attempt without its "except ValueError: pass"
final_attempt_uncaught(str) ==
  IF /\ Search({p \in 1..Len(str) : date_match(str, p)}) # 0
     /\ Search({p \in 1..Len(str) : time_match(str, p)}) # 0
  THEN (IF strptime(final_string(str), final_format).ok
        THEN Returned(strptime(final_string(str), final_format).ts)
        ELSE Raised)
  ELSE None

final_attempt(str) ==
  IF /\ Search({p \in 1..Len(str) : date_match(str, p)}) # 0
     /\ Search({p \in 1..Len(str) : time_match(str, p)}) # 0
  THEN (IF strptime(final_string(str), final_format).ok
        THEN Returned(strptime(final_string(str), final_format).ts)
        ELSE None)
  ELSE None

\* lines 122-185: the repairs, the templates, the final attempt
remaining_steps(str) ==
  IF try_formats(repair(str), 1).ok THEN Returned(try_formats(repair(str), 1).ts)
  ELSE final_attempt(repair(str))

\* parse_draw_datetime for a str; None is returned for the empty string (line 99)
parse_draw_datetime(datetime_str) ==
  LET str == strip(datetime_str)
  IN  IF datetime_str = <<>> THEN None
      ELSE IF Pattern1(str).ok THEN Returned(Pattern1(str).ts)
      ELSE remaining_steps(str)

\* ---- parse_draw_datetime: the strings it is applied to ----------------------------
\* drawDateTime as the feed writes it: a long date, what stands between the date and
\* the time, a time HH:48:39, an AM/PM suffix and a time zone.  `variant` names the
\* one way the string departs from "Month DD, YYYY at HH:MM:SS UTC", or the way an
\* ISO date is embedded after the long date.
Months == {"February", "October"}
Days == {2, 25, 30}
Years == {2022, 2023}
Hours == {3, 12, 15}
Suffixes == {"", " AM", " PM", "PM", " pm"}
Zones == {" UTC", ""}
LongVariants ==
  {"canonical", "at_no_space", "comma_at", "no_comma", "comma_no_space", "no_at",
   "comma_no_at", "double_1", "double_2", "double_3", "double_4", "double_5"}
DupVariants ==
  {"dup", "dup_other_day", "dup_month_13", "dup_time_glued", "dup_twice", "iso_only"}
OtherVariants == {"garbage", "empty"}

Shapes ==
  [variant : LongVariants \cup DupVariants, month : Months, day : Days, year : Years,
   hour : Hours, suffix : Suffixes, zone : Zones]
  \cup [variant : OtherVariants, month : {"February"}, day : {2}, year : {2022},
        hour : {3}, suffix : {""}, zone : {""}]

LongDate(sh, comma) ==
  <<Word(sh.month), Blank, Num(sh.day, 2)>> \o comma \o <<Num(sh.year, 4)>>

IsoDate(y, m, d) == <<Num(y, 4), Dash, Num(m, 2), Dash, Num(d, 2)>>

Time(h) == <<Num(h, 2), Colon, Num(48, 2), Colon, Num(39, 2)>>

Suffix(s) ==
  CASE s = " AM" -> <<Blank, Word("AM")>>
    [] s = " PM" -> <<Blank, Word("PM")>>
    [] s = "PM" -> <<Word("PM")>>
    [] s = " pm" -> <<Blank, Word("pm")>>
    [] OTHER -> <<>>

Zone(z) == IF z = " UTC" THEN <<Blank, Word("UTC")>> ELSE <<>>

\* the string with its k-th blank written twice
RECURSIVE DoubleBlank(_, _)
DoubleBlank(str, k) ==
  IF str = <<>> THEN <<>>
  ELSE IF str[1] = Blank
       THEN (IF k = 1 THEN <<Blank, Blank>> \o Tail(str)
             ELSE <<Blank>> \o DoubleBlank(Tail(str), k - 1))
  ELSE <<str[1]>> \o DoubleBlank(Tail(str), k)

Canonical(sh) ==
  LongDate(sh, <<Comma, Blank>>) \o <<Blank, Word("at"), Blank>> \o Time(sh.hour)
    \o Suffix(sh.suffix) \o Zone(sh.zone)

Build(sh) ==
  LET v == sh.variant
      tail == Time(sh.hour) \o Suffix(sh.suffix) \o Zone(sh.zone)
      long == LongDate(sh, <<Comma, Blank>>)
      m == MonthNumber(sh.month)
  IN  CASE v = "canonical" -> Canonical(sh)
        [] v = "at_no_space" -> long \o <<Blank, Word("at")>> \o tail
        [] v = "comma_at" -> long \o <<Comma, Blank, Word("at"), Blank>> \o tail
        [] v = "no_comma" -> LongDate(sh, <<Blank>>) \o <<Blank, Word("at"), Blank>> \o tail
        [] v = "comma_no_space" -> LongDate(sh, <<Comma>>) \o <<Blank>> \o tail
        [] v = "no_at" -> long \o <<Blank>> \o tail
        [] v = "comma_no_at" -> long \o <<Comma, Blank>> \o tail
        [] v = "double_1" -> DoubleBlank(Canonical(sh), 1)
        [] v = "double_2" -> DoubleBlank(Canonical(sh), 2)
        [] v = "double_3" -> DoubleBlank(Canonical(sh), 3)
        [] v = "double_4" -> DoubleBlank(Canonical(sh), 4)
        [] v = "double_5" -> DoubleBlank(Canonical(sh), 5)
        [] v = "dup" -> long \o <<Blank>> \o IsoDate(sh.year, m, sh.day) \o <<Blank>> \o tail
        [] v = "dup_other_day" ->
             long \o <<Blank>> \o IsoDate(sh.year, m, 1) \o <<Blank>> \o tail
        [] v = "dup_month_13" ->
             long \o <<Blank>> \o IsoDate(sh.year, 13, 1) \o <<Blank>> \o tail
        [] v = "dup_time_glued" ->
             long \o <<Blank>> \o IsoDate(sh.year, m, 1) \o <<Blank>> \o Time(sh.hour)
               \o <<Word("UTC")>>
        [] v = "dup_twice" ->
             long \o <<Blank>> \o IsoDate(sh.year, m, 1) \o <<Blank>> \o Time(sh.hour)
               \o <<Blank>> \o IsoDate(sh.year, m, sh.day) \o <<Blank>> \o Time(23)
               \o Zone(sh.zone)
        [] v = "iso_only" -> IsoDate(sh.year, m, sh.day) \o <<Blank>> \o tail
        [] v = "garbage" -> <<Word("garbage"), Blank, Word("string")>>
        [] OTHER -> <<>>

DateTimeStrings == {Build(sh) : sh \in Shapes}

\* ---- analyze_draws: the summary statistics ---------------------------------------
\* A value of drawSize or drawCRS in a round of EE.json: the key is missing, the key
\* holds something pd.to_numeric(errors='coerce') turns into NaN, or it holds a number.
Missing == [has |-> FALSE, numeric |-> FALSE, v |-> 0]
NotNumeric == [has |-> TRUE, numeric |-> FALSE, v |-> 0]
Number(v) == [has |-> TRUE, numeric |-> TRUE, v |-> v]

StatValues == {Missing, NotNumeric, Number(0), Number(2)}
StatRounds == [drawSize : StatValues, drawCRS : StatValues]
StatCollections == UNION {[1..k -> StatRounds] : k \in 0..MaxRounds}

\* df[column] after pd.DataFrame(data["rounds"]): the frame has the column when some
\* round has the key; a round without it holds NaN there.
column_exists(rounds, column) == \E i \in 1..Len(rounds) : rounds[i][column].has

\* the values of the column that are not NaN after pd.to_numeric
RECURSIVE notnull(_, _)
notnull(rounds, column) ==
  IF rounds = <<>> THEN <<>>
  ELSE (IF rounds[1][column].numeric THEN <<rounds[1][column].v>> ELSE <<>>)
         \o notnull(Tail(rounds), column)

RECURSIVE sum(_)
sum(xs) == IF xs = <<>> THEN 0 ELSE xs[1] + sum(Tail(xs))

RECURSIVE sum_squares(_)
sum_squares(xs) == IF xs = <<>> THEN 0 ELSE xs[1] * xs[1] + sum_squares(Tail(xs))

max(xs) == CHOOSE x \in {xs[i] : i \in 1..Len(xs)} : \A i \in 1..Len(xs) : xs[i] <= x
min(xs) == CHOOSE x \in {xs[i] : i \in 1..Len(xs)} : \A i \in 1..Len(xs) : x <= xs[i]

\* a field of the summary: "N/A", NaN, or the number num / den
NA == [kind |-> "N/A", num |-> 0, den |-> 1]
NaN == [kind |-> "nan", num |-> 0, den |-> 1]
Value(num, den) == [kind |-> "number", num |-> num, den |-> den]

\* round(mean, 2), in hundredths; with so few values no mean lies halfway between
\* two hundredths
round_mean(xs) == Value((200 * sum(xs) + Len(xs)) \div (2 * Len(xs)), 100)

\* std() / mean(): the sample standard deviation (NaN for a single value) over the
\* mean, kept as the exact square (std / mean)^2 =
\* n (n sum(x^2) - sum(x)^2) / ((n - 1) sum(x)^2) in place of its rounded root
cv(xs) ==
  LET n == Len(xs)
  IN  IF n = 1 THEN NaN
      ELSE Value(n * (n * sum_squares(xs) - sum(xs) * sum(xs)),
                 (n - 1) * sum(xs) * sum(xs))

\* lines 332-354 for one column
column_stats(rounds, column) ==
  LET xs == notnull(rounds, column)
  IN  [highest |-> IF xs # <<>> THEN Value(max(xs), 1) ELSE NA,
       average |-> IF xs # <<>> THEN round_mean(xs) ELSE NA,
       lowest |-> IF xs # <<>> THEN Value(min(xs), 1) ELSE NA,
       coefficient_of_variation |-> IF xs # <<>> /\ sum(xs) # 0 THEN cv(xs) ELSE NA]

NoStats ==
  [highest |-> NA, average |-> NA, lowest |-> NA, coefficient_of_variation |-> NA]

\* analyze_draws failed: it logged and returned None
NoAnalysis == [ok |-> FALSE, total |-> 0, size |-> NoStats, score |-> NoStats]

\* analyze_draws, lines 303-386, for the rounds read from EE.json (each with a
\* drawDate): the analysis it returns.  df['drawDate'], df['drawSize'] and
\* df['drawCRS'] raise KeyError when the frame lacks the column, which the except of
\* line 402 turns into None.
analysis_of(rounds) ==
  IF /\ rounds # <<>>
     /\ column_exists(rounds, "drawSize")
     /\ column_exists(rounds, "drawCRS")
  THEN [ok |-> TRUE, total |-> Len(rounds),
        size |-> column_stats(rounds, "drawSize"),
        score |-> column_stats(rounds, "drawCRS")]
  ELSE NoAnalysis


\* ---- analyze_draw_times -----------------------------------------------------------
\* drawDateTime of a round of EE.json: draw.get("drawDateTime") is None when the key
\* is missing, else the string
NoDateTime == [has |-> FALSE, str |-> <<>>]
DateTime(str) == [has |-> TRUE, str |-> str]

\* "October 25, 2023 at HH:48:39 UTC"
DrawTime(h) ==
  DateTime(Canonical([variant |-> "canonical", month |-> "October", day |-> 25,
                      year |-> 2023, hour |-> h, suffix |-> "", zone |-> " UTC"]))

DrawHours == {0, 14, 15, 23}
DrawDateTimes ==
  {NoDateTime, DateTime(<<>>), DateTime(<<Word("garbage"), Blank, Word("string")>>)}
    \cup {DrawTime(h) : h \in DrawHours}

\* data["rounds"], each round reduced to its drawDateTime; the position stands for
\* the drawNumber
TimedCollections == UNION {[1..k -> DrawDateTimes] : k \in 0..MaxDraws}

\* lines 463-467: "if draw_time:" and "if parsed_time:"
parsed_time(draw_time) ==
  IF draw_time.has /\ draw_time.str # <<>> THEN parse_draw_datetime(draw_time.str)
  ELSE None

\* hour_counts with every draw that has a drawDateTime counted at the hour its
\* answer carries (0 for None).
RECURSIVE hour_counts_unguarded(_)
hour_counts_unguarded(draws) ==
  IF draws = <<>> THEN [h \in 0..23 |-> 0]
  ELSE LET before == hour_counts_unguarded(SubSeq(draws, 1, Len(draws) - 1))
           t == parsed_time(draws[Len(draws)])
       IN  IF draws[Len(draws)].has THEN [before EXCEPT ![t.ts.hour] = @ + 1]
           ELSE before

\* lines 458, 462-469: hour_counts after the loop over the draws
RECURSIVE hour_counts(_)
hour_counts(draws) ==
  IF draws = <<>> THEN [h \in 0..23 |-> 0]
  ELSE LET before == hour_counts(SubSeq(draws, 1, Len(draws) - 1))
           t == parsed_time(draws[Len(draws)])
       IN  IF t.kind = "timestamp" THEN [before EXCEPT ![t.ts.hour] = @ + 1]
           ELSE before

\* lines 472-481: valid_times, one entry for each draw that parsed, in file order
RECURSIVE valid_times(_, _)
valid_times(draws, i) ==
  IF i > Len(draws) THEN <<>>
  ELSE (IF parsed_time(draws[i]).kind = "timestamp"
        THEN <<[drawNumber |-> i, hour |-> parsed_time(draws[i]).ts.hour,
                datetime |-> parsed_time(draws[i]).ts]>>
        ELSE <<>>) \o valid_times(draws, i + 1)

\* isoformat() strings compare as the dates and times they write
IsoBefore(a, b) ==
  LET k(t) == <<t.year, t.month, t.day, t.hour, t.minute, t.second>>
      first == CHOOSE j \in 1..7 : (j = 7 \/ k(a)[j] # k(b)[j])
                                   /\ \A l \in 1..(j - 1) : k(a)[l] = k(b)[l]
  IN  first < 7 /\ k(a)[first] < k(b)[first]

\* list.sort(key=...): stable
RECURSIVE InsertByDatetime(_, _)
InsertByDatetime(sorted, e) ==
  IF sorted = <<>> THEN <<e>>
  ELSE IF IsoBefore(e.datetime, sorted[Len(sorted)].datetime)
       THEN InsertByDatetime(SubSeq(sorted, 1, Len(sorted) - 1), e)
              \o <<sorted[Len(sorted)]>>
       ELSE sorted \o <<e>>

RECURSIVE sort_timeline(_)
sort_timeline(entries) ==
  IF entries = <<>> THEN <<>>
  ELSE InsertByDatetime(sort_timeline(SubSeq(entries, 1, Len(entries) - 1)),
                        entries[Len(entries)])

\* lines 504-514: the maximal runs of consecutive hours among max_indices, as
\* (start, end)
ranges(max_indices) ==
  {r \in max_indices \X max_indices :
     /\ r[1] <= r[2]
     /\ \A h \in r[1]..r[2] : h \in max_indices
     /\ (r[1] - 1) \notin max_indices
     /\ (r[2] + 1) \notin max_indices}

\* best_range preferring the latest of the longest runs.
best_range_latest(rs) ==
  CHOOSE r \in rs :
    \A q \in rs : \/ r[2] - r[1] > q[2] - q[1]
                  \/ r[2] - r[1] = q[2] - q[1] /\ r[1] >= q[1]

\* line 516: max(ranges, key=lambda r: (r[1] - r[0] + 1, -r[0]))
best_range(rs) ==
  CHOOSE r \in rs :
    \A q \in rs : \/ r[2] - r[1] > q[2] - q[1]
                  \/ r[2] - r[1] = q[2] - q[1] /\ r[1] <= q[1]

\* lines 517-523: _fmt_hour
fmt_hour(h) ==
  LET h_mod == h % 24
      suffix == IF h_mod < 12 THEN "AM" ELSE "PM"
      hour12 == IF h_mod % 12 = 0 THEN 12 ELSE h_mod % 12
  IN  ToString(hour12) \o " " \o suffix

NoHour == ""

\* lines 501-529; max_count and max_indices are computed once, as the code does
most_common_hour(counts, total_draws) ==
  IF total_draws > 0
  THEN LET range_text(max_indices) ==
             fmt_hour(best_range(ranges(max_indices))[1]) \o " - "
               \o fmt_hour(best_range(ranges(max_indices))[2] + 1)
       IN  CHOOSE text \in
             {range_text({h \in 0..23 : counts[h] = max_count}) :
                max_count \in {c \in {counts[h] : h \in 0..23} :
                                 \A h \in 0..23 : counts[h] <= c}} : TRUE
  ELSE NoHour

RECURSIVE weighted_sum(_, _)
weighted_sum(counts, h) ==
  IF h > 23 THEN 0 ELSE h * counts[h] + weighted_sum(counts, h + 1)

\* lines 530, 536: avg_hour, and round(avg_hour, 2) if avg_hour else None; a mean of
\* 0.0 is falsy.  Hundredths; with so few draws no mean lies halfway between two.
average_hour(counts, total_draws) ==
  IF total_draws > 0 /\ weighted_sum(counts, 0) # 0
  THEN Value((200 * weighted_sum(counts, 0) + total_draws) \div (2 * total_draws), 100)
  ELSE NA

\* lines 453-540 for the rounds read from EE.json: the time_analysis dictionary
\* (without analysis_date)
time_analysis(draws) ==
  LET result(counts, times) ==
        [total_draws_with_times |-> Len(times),
         hour_distribution |-> counts,
         most_common_hour |-> most_common_hour(counts, Len(times)),
         average_hour |-> average_hour(counts, Len(times)),
         draw_times |-> times,
         draw_timeline |-> sort_timeline(times)]
  IN  CHOOSE out \in {result(counts, times) : counts \in {hour_counts(draws)},
                                              times \in {valid_times(draws, 1)}} : TRUE

\* ---- process_draw_data: the column projection ---------------------------------------
\* A raw round of the feed is a dictionary: a function from the keys it carries to
\* their values.  Of self.selected_columns (lines 28-57) three are kept here, the
\* others are selected exactly as drawSize is; drawNew is a key the manager does not
\* know.  A value is Number(v); the NaN of a frame cell is Missing.
selected_columns == {"drawNumber", "drawDate", "drawSize"}
RawKeys == selected_columns \cup {"drawNew"}
RawValues == {Number(0), Number(2)}
RawDicts == UNION {[K -> RawValues] : K \in SUBSET RawKeys}
RawCollections == UNION {[1..k -> RawDicts] : k \in 0..MaxRaw}

KeyError == [ok |-> FALSE, columns |-> {}, rows |-> <<>>]
Frame(columns, rows) == [ok |-> TRUE, columns |-> columns, rows |-> rows]

\* pd.DataFrame(rounds_data): a column for every key some round carries, NaN where a
\* round has no such key
DataFrame(rounds_data) ==
  LET columns == UNION {DOMAIN rounds_data[i] : i \in 1..Len(rounds_data)}
  IN  Frame(columns,
            [i \in 1..Len(rounds_data) |->
               [c \in columns |-> IF c \in DOMAIN rounds_data[i] THEN rounds_data[i][c]
                                  ELSE Missing]])

\* line 94: [col for col in self.selected_columns if col in df.columns]
available_columns(df) == {col \in selected_columns : col \in df.columns}

\* df[columns]: KeyError when a label is not a column of the frame
getitem(df, columns) ==
  IF columns \subseteq df.columns
  THEN Frame(columns, [i \in 1..Len(df.rows) |-> [c \in columns |-> df.rows[i][c]]])
  ELSE KeyError

\* sort_values('drawDate', ascending=False): greater dates first, NaN last, equal
\* dates in the order they had
DateBefore(a, b) == a.drawDate.has /\ (~b.drawDate.has \/ a.drawDate.v > b.drawDate.v)

RECURSIVE InsertByDrawDate(_, _)
InsertByDrawDate(sorted, row) ==
  IF sorted = <<>> THEN <<row>>
  ELSE IF DateBefore(row, sorted[Len(sorted)])
       THEN InsertByDrawDate(SubSeq(sorted, 1, Len(sorted) - 1), row)
              \o <<sorted[Len(sorted)]>>
       ELSE sorted \o <<row>>

RECURSIVE sort_rows(_)
sort_rows(rows) ==
  IF rows = <<>> THEN <<>>
  ELSE InsertByDrawDate(sort_rows(SubSeq(rows, 1, Len(rows) - 1)), rows[Len(rows)])

sort_values(df) ==
  IF df.ok /\ "drawDate" \in df.columns THEN Frame(df.columns, sort_rows(df.rows))
  ELSE KeyError

\* src/Draws.py lines 89-95
process_draw_data_frame(rounds_data) ==
  sort_values(getitem(DataFrame(rounds_data), available_columns(DataFrame(rounds_data))))

\* src/Data/UpdateDraws.py lines 52-74: df[selected_columns], every one of them
UpdateDraws_process_draw_data(rounds_data) ==
  getitem(DataFrame(rounds_data), selected_columns)

\* ---- src/Data/Draws.py: the manager that keeps EE.csv ------------------------------
\* lines 45-55: get_existing_data reads EE.csv; None when it is missing or unreadable
csv_get_existing_data(f) ==
  IF f.kind = "csv" THEN [ok |-> TRUE, df |-> f.rows] ELSE [ok |-> FALSE, df |-> <<>>]

\* to_csv: as open(path, "w") + dump
to_csv(old, rows, w) ==
  CASE w = "ok" -> CsvFile(rows)
    [] w = "fail_open" -> old
    [] OTHER -> CorruptCsv

\* line 82: "Only update if there are changes"
csv_up_to_date(existing, old_count, new_count) == old_count = new_count /\ existing.ok

\* lines 64-92: the two files update_data leaves and what it returns, for the fetch
\* answer `data` and the outcomes wj, wc of writing EE.json and EE.csv.  EE.json has
\* no metadata here: its updated_at stays 0.
csv_update_data_call(data, wj, wc) ==
  LET new_df == process_draw_data(data.rounds)
      new_count == Len(new_df.df)
      existing == csv_get_existing_data(ee_csv)
      old_count == IF existing.ok THEN Len(existing.df) ELSE 0
      written == write_json(ee_json, JsonFile(data.rounds, 0), wj)
  IN  IF ~data.ok \/ ~new_df.ok
      THEN [json |-> ee_json, csv |-> ee_csv, ret |-> <<FALSE, 0, 0>>]
      ELSE IF wj # "ok"
      THEN [json |-> written, csv |-> ee_csv, ret |-> <<FALSE, 0, 0>>]
      ELSE IF csv_up_to_date(existing, old_count, new_count)
      THEN [json |-> written, csv |-> ee_csv, ret |-> <<FALSE, old_count, new_count>>]
      ELSE IF wc # "ok"
      THEN [json |-> written, csv |-> to_csv(ee_csv, new_df.df, wc),
            ret |-> <<FALSE, 0, 0>>]
      ELSE [json |-> written, csv |-> CsvFile(new_df.df),
            ret |-> <<TRUE, old_count, new_count>>]

\* ---- the machine ----------------------------------------------------------
\* the manager constructed over an empty data directory, the script not running
InitManager ==
  /\ ee_json = NoFile
  /\ analysis_json = NoOutput
  /\ time_analysis_json = NoOutput
  /\ now = 0
  /\ last = NoCall
  /\ pc = "idle"
  /\ inv = NoInvocation
  /\ ee_csv = NoCsv

Init ==
  /\ InitManager
  /\ pure_call = NoPureCall

Tick ==
  /\ now < MaxClock
  /\ now' = now + 1
  /\ UNCHANGED <<ee_csv, ee_json, analysis_json, time_analysis_json, last, pc, inv, pure_call>>

\* Direct calls of the manager (as main() of Draws.py makes them).
update_data ==
  /\ pc = "idle"
  /\ \E data \in FetchResults, w \in WriteOutcomes :
       /\ ee_json' = update_data_call(data, w).ee
       /\ last' = update_data_call(data, w).last
  /\ UNCHANGED <<ee_csv, analysis_json, time_analysis_json, now, pc, inv, pure_call>>

check_data_freshness ==
  /\ pc = "idle"
  /\ \E data \in FetchResults : last' = check_data_freshness_call(data)
  /\ UNCHANGED <<ee_csv, ee_json, analysis_json, time_analysis_json, now, pc, inv, pure_call>>

analyze_draws ==
  /\ pc = "idle"
  /\ \E wa \in BOOLEAN, wt \in BOOLEAN, we \in WriteOutcomes :
       /\ ee_json' = analyze_draws_call(wa, wt, we).ee
       /\ analysis_json' = analyze_draws_call(wa, wt, we).analysis
       /\ time_analysis_json' = analyze_draws_call(wa, wt, we).time
       /\ last' = analyze_draws_call(wa, wt, we).last
  /\ UNCHANGED <<ee_csv, now, pc, inv, pure_call>>

\* ---- automation.py ----------------------------------------------------------
Ran(stage, ok) == inv.stages \o <<[stage |-> stage, ok |-> ok]>>

\* lines 54-66: read the SMTP settings; ValueError when one is missing, which the
\* top-level except prints.
AutoStart ==
  /\ pc = "idle"
  /\ \E creds \in BOOLEAN :
       /\ inv' = [NoInvocation EXCEPT !.creds = creds, !.error = ~creds]
       /\ pc' = IF creds THEN "check" ELSE "end"
  /\ UNCHANGED <<ee_csv, ee_json, analysis_json, time_analysis_json, now, last, pure_call>>

\* line 67-69, 85-86
AutoCheck ==
  /\ pc = "check"
  /\ \E data \in FetchResults :
       /\ last' = check_data_freshness_call(data)
       /\ inv' = [inv EXCEPT !.stages = Ran("check_data_freshness", data.ok),
                             !.needs_update = check_data_freshness_call(data).ret[1]]
       /\ pc' = IF check_data_freshness_call(data).ret[1] THEN "update" ELSE "end"
  /\ UNCHANGED <<ee_csv, ee_json, analysis_json, time_analysis_json, now, pure_call>>

\* line 71: the result of update_data is discarded.
AutoUpdate ==
  /\ pc = "update"
  /\ \E data \in FetchResults, w \in WriteOutcomes :
       LET r == update_data_call(data, w)
       IN  /\ ee_json' = r.ee
           /\ last' = r.last
           /\ inv' = [inv EXCEPT !.stages = Ran("update_data", r.last.failed = "none"),
                                 !.sync = IF r.last.failed # "none" THEN "failed"
                                          ELSE IF r.last.ret[1] THEN "changed"
                                          ELSE "unchanged"]
  /\ pc' = "analyze"
  /\ UNCHANGED <<ee_csv, analysis_json, time_analysis_json, now, pure_call>>

\* line 72: the result of analyze_draws is discarded.
AutoAnalyze ==
  /\ pc = "analyze"
  /\ \E wa \in BOOLEAN, wt \in BOOLEAN, we \in WriteOutcomes :
       LET r == analyze_draws_call(wa, wt, we)
       IN  /\ ee_json' = r.ee
           /\ analysis_json' = r.analysis
           /\ time_analysis_json' = r.time
           /\ last' = r.last
           /\ inv' = [inv EXCEPT !.stages = Ran("analyze_draws", r.last.ret[1])]
  /\ pc' = "format"
  /\ UNCHANGED <<ee_csv, now, pure_call>>

\* lines 73-74: an exception here reaches the top-level except.
AutoFormat ==
  /\ pc = "format"
  /\ LET d == get_latest_draws(ee_json)
     IN  IF format_draw_info_ok(d.latest, d.previous)
         THEN pc' = "email" /\ inv' = inv
         ELSE pc' = "end" /\ inv' = [inv EXCEPT !.error = TRUE]
  /\ UNCHANGED <<ee_csv, ee_json, analysis_json, time_analysis_json, now, last, pure_call>>

\* lines 75-84: send_email logs a failure and returns.
AutoEmail ==
  /\ pc = "email"
  /\ \E sent \in BOOLEAN :
       /\ last' = send_email_call(sent)
       /\ inv' = [inv EXCEPT !.stages = Ran("send_email", sent),
                             !.error = send_email_call(sent).raised]
  /\ pc' = "end"
  /\ UNCHANGED <<ee_csv, ee_json, analysis_json, time_analysis_json, now, pure_call>>

\* lines 87-88 and the end of the script: the interpreter exits with status 0.
AutoExit ==
  /\ pc = "end"
  /\ inv' = [inv EXCEPT !.exit = 0]
  /\ pc' = "done"
  /\ UNCHANGED <<ee_csv, ee_json, analysis_json, time_analysis_json, now, last, pure_call>>

\* The next scheduled run starts from a fresh process.
AutoReset ==
  /\ pc = "done"
  /\ pc' = "idle"
  /\ inv' = NoInvocation
  /\ UNCHANGED <<ee_csv, ee_json, analysis_json, time_analysis_json, now, last, pure_call>>

Next ==
  \/ Tick
  \/ update_data
  \/ check_data_freshness
  \/ analyze_draws
  \/ AutoStart
  \/ AutoCheck
  \/ AutoUpdate
  \/ AutoAnalyze
  \/ AutoFormat
  \/ AutoEmail
  \/ AutoExit
  \/ AutoReset

Spec == Init /\ [][Next]_vars

\* ---- parse_draw_datetime applied on its own --------------------------------------
InitParse ==
  /\ InitManager
  /\ pure_call \in {[fn |-> "none", shape |-> sh, arg |-> Build(sh)] : sh \in Shapes}

\* one call of the method; `repaired` is the string the templates were tried on
Parse ==
  /\ pure_call.fn = "none"
  /\ pure_call' = [fn |-> "parse_draw_datetime", shape |-> pure_call.shape,
                   arg |-> pure_call.arg, repaired |-> repair(strip(pure_call.arg)),
                   out |-> parse_draw_datetime(pure_call.arg)]
  /\ UNCHANGED <<ee_csv, ee_json, analysis_json, time_analysis_json, now, last, pc, inv>>

SpecParse == InitParse /\ [][Parse]_vars

\* ---- analyze_draws applied to a collection on its own -----------------------------
InitSummary ==
  /\ InitManager
  /\ pure_call \in {[fn |-> "none", arg |-> rounds] : rounds \in StatCollections}

Summarize ==
  /\ pure_call.fn = "none"
  /\ pure_call' = [fn |-> "analyze_draws", arg |-> pure_call.arg,
                   out |-> analysis_of(pure_call.arg)]
  /\ UNCHANGED <<ee_csv, ee_json, analysis_json, time_analysis_json, now, last, pc, inv>>

SpecSummary == InitSummary /\ [][Summarize]_vars

\* ---- analyze_draw_times applied to a collection on its own -------------------------
InitTimes ==
  /\ InitManager
  /\ pure_call \in {[fn |-> "none", arg |-> draws] : draws \in TimedCollections}

AnalyzeTimes ==
  /\ pure_call.fn = "none"
  /\ pure_call' = [fn |-> "analyze_draw_times", arg |-> pure_call.arg,
                   out |-> time_analysis(pure_call.arg)]
  /\ UNCHANGED <<ee_csv, ee_json, analysis_json, time_analysis_json, now, last, pc, inv>>

SpecTimes == InitTimes /\ [][AnalyzeTimes]_vars

\* ---- process_draw_data applied to a list of raw rounds on its own -------------------
InitProjection ==
  /\ InitManager
  /\ pure_call \in {[fn |-> "none", arg |-> rounds_data] : rounds_data \in RawCollections}

Project ==
  /\ pure_call.fn = "none"
  /\ pure_call' = [fn |-> "process_draw_data", arg |-> pure_call.arg,
                   out |-> process_draw_data_frame(pure_call.arg),
                   script |-> UpdateDraws_process_draw_data(pure_call.arg)]
  /\ UNCHANGED <<ee_csv, ee_json, analysis_json, time_analysis_json, now, last, pc, inv>>

SpecProjection == InitProjection /\ [][Project]_vars

\* ---- the manager of src/Data/Draws.py, called again and again ------------------------
csv_update_data ==
  /\ \E data \in FetchResults, wj \in WriteOutcomes, wc \in WriteOutcomes :
       LET r == csv_update_data_call(data, wj, wc)
       IN  /\ ee_json' = r.json
           /\ ee_csv' = r.csv
           /\ last' = [NoCall EXCEPT !.op = "update_data", !.ret = r.ret]
  /\ UNCHANGED <<analysis_json, time_analysis_json, now, pc, inv, pure_call>>

SpecCsv == Init /\ [][csv_update_data]_vars

\* ---- properties -------------------------------------------------------------
UpdateStep == update_data \/ AutoUpdate
FreshnessStep == check_data_freshness \/ AutoCheck

\* Two update_data calls in a row whose fetches returned the same rounds, neither
\* call hitting a failed file write.
SameFeedTwice ==
  /\ last.op = "update_data"
  /\ last.failed \in {"none", "process"}
  /\ last'.op = "update_data"
  /\ last'.failed \in {"none", "process"}
  /\ last'.data = last.data
  /\ UpdateStep

C2_PersistedSorted ==
  ee_json.kind = "json" =>
    \A i \in 1..(Len(ee_json.rounds) - 1) :
      LET a == ee_json.rounds[i]
          b == ee_json.rounds[i + 1]
      IN  (a.drawDate # Absent /\ b.drawDate # Absent) =>
            \/ a.drawDate > b.drawDate
            \/ a.drawDate = b.drawDate /\ a.drawNumber >= b.drawNumber

\* C3: when a persisted collection exists and update_data fetches as many records as
\* it holds, the call returns changed=false and the stored records after the call are
\* the records stored before it.
C3_UnchangedKeepsRecords ==
  [][(/\ ee_json.kind = "json"
      /\ last'.op = "update_data"
      /\ last'.failed = "none"
      /\ Len(last'.data.rounds) = Len(ee_json.rounds)
      /\ UpdateStep)
       => (~last'.ret[1] /\ ee_json'.kind = "json" /\ ee_json'.rounds = ee_json.rounds)]_vars

\* C4: when no persisted collection exists or its count differs from the fetched
\* count, update_data returns changed=true with the old size (0 if none) and the
\* fetched size, and the persisted collection is then exactly the fetched records.
C4_ChangedOverwrites ==
  [][(/\ last'.op = "update_data"
      /\ last'.data.ok
      /\ (ee_json.kind # "json" \/ Len(ee_json.rounds) # Len(last'.data.rounds))
      /\ UpdateStep)
       => /\ last'.ret = <<TRUE, existing_count(ee_json), Len(last'.data.rounds)>>
          /\ ee_json'.kind = "json"
          /\ ee_json'.rounds = last'.data.rounds]_vars

\* C5: when update_data fetched fewer records than were persisted, the persisted
\* collection is overwritten with the fetched set and the call emitted a warning.
C5_ShrinkWarns ==
  (/\ last.op = "update_data"
   /\ last.failed = "none"
   /\ last.ret[3] < last.ret[2])
    => (ee_json.rounds = last.data.rounds /\ "warning" \in last.log)

\* C6: when the write of the persisted file fails inside update_data, the caller does
\* not receive a changed=false return as an unchanged feed produces: the failure
\* reaches it as an exception or as a result other than changed=false.
C6_WriteFailureDistinct ==
  (last.op = "update_data" /\ last.failed = "write") => (last.raised \/ last.ret[1])

StageNames == <<"check_data_freshness", "update_data", "analyze_draws", "send_email">>
StagesRun == {inv.stages[i].stage : i \in 1..Len(inv.stages)}

\* C7: within one invocation the stages run in the order fetch, sync, analyze, notify,
\* and analyze_draws and send_email run only if update_data of that invocation
\* reported changed=true.
C7_GatedOnChanged ==
  /\ Len(inv.stages) <= Len(StageNames)
  /\ \A i \in 1..Len(inv.stages) : inv.stages[i].stage = StageNames[i]
  /\ ("analyze_draws" \in StagesRun \/ "send_email" \in StagesRun) => inv.sync = "changed"

\* C8: no stage of an invocation runs after a stage of it has failed.
C8_NoStageAfterFailure ==
  \A i, j \in 1..Len(inv.stages) : i < j => inv.stages[i].ok

\* C9: the script exits with status 0 when no top-level failure occurred, whether or
\* not an update occurred, and with a non-zero status when the SMTP credentials are
\* missing.
C9_ExitStatus ==
  pc = "done" =>
    /\ ~inv.error => inv.exit = 0
    /\ ~inv.creds => inv.exit # 0

\* C10: check_data_freshness never propagates a fetch failure; when the fetch fails it
\* returns needs_update=false with the existing persisted count, and in every case it
\* leaves the persisted file as it was.
C10_FreshnessTolerant ==
  [][(last'.op = "check_data_freshness" /\ FreshnessStep) =>
       /\ ee_json' = ee_json
       /\ ~last'.raised
       /\ last'.failed = "fetch" => last'.ret = <<FALSE, existing_count(ee_json), 0>>]_vars

\* C10 witness: a freshness check whose fetch failed, over a persisted collection that
\* holds records, returned (False, count, 0).
C10_Witness ==
  /\ last.op = "check_data_freshness"
  /\ last.failed = "fetch"
  /\ ee_json.kind = "json"
  /\ Len(ee_json.rounds) > 0
  /\ last.ret = <<FALSE, Len(ee_json.rounds), 0>>

\* C11: when the fetch fails inside update_data, no exception escapes, the call
\* reports changed = false, and the persisted collection is exactly as before.
C11_TransportFailureLeavesCollection ==
  [][(last'.op = "update_data" /\ last'.failed = "fetch" /\ UpdateStep)
       => /\ ~last'.raised
          /\ last'.ret[1] = FALSE
          /\ ee_json' = ee_json]_vars

\* a failed fetch while a collection with rounds is on disk
C11_Witness ==
  /\ last.op = "update_data"
  /\ last.failed = "fetch"
  /\ ee_json.kind = "json"
  /\ Len(ee_json.rounds) > 0

\* C12: a failure inside send_email is logged and does not propagate; the persisted
\* collection and the derived-output files stay exactly as synchronization wrote them.
C12_NotificationFailureNonBlocking ==
  [][(last'.op = "send_email" /\ last'.failed # "none" /\ AutoEmail)
       => /\ ~last'.raised
          /\ "error" \in last'.log
          /\ ~inv'.error
          /\ ee_json' = ee_json
          /\ analysis_json' = analysis_json
          /\ time_analysis_json' = time_analysis_json]_vars

\* a failed notification after a run that wrote the collection and both outputs
C12_Witness ==
  /\ last.op = "send_email"
  /\ last.failed = "smtp"
  /\ pc = "end"
  /\ inv.sync = "changed"
  /\ ee_json.kind = "json"
  /\ analysis_json.kind = "json"
  /\ time_analysis_json.kind = "json"

\* ---- properties of parse_draw_datetime (SpecParse) -------------------------------
Called == pure_call.fn = "parse_draw_datetime"

\* the date and time a string of DateTimeStrings writes in its long date and time
Written(sh) == Timestamp(sh.year, MonthNumber(sh.month), sh.day, sh.hour, 48, 39)
ValidDate(sh) == sh.day <= DaysInMonth(sh.year, MonthNumber(sh.month))

\* C13: for 'Month DD, YYYY HH:MM:SS PM UTC' with a written hour below 13 the result
\* is the 24-hour value of that time ('03:48:39 PM' gives hour 15).
C13_PMApplied ==
  (/\ Called
   /\ pure_call.shape.variant = "no_at"
   /\ pure_call.shape.suffix = " PM"
   /\ pure_call.shape.zone = " UTC"
   /\ pure_call.shape.hour < 13
   /\ ValidDate(pure_call.shape))
  => /\ pure_call.out.kind = "timestamp"
     /\ pure_call.out.ts.hour = (pure_call.shape.hour % 12) + 12

\* C14: parse_draw_datetime never raises: it returns a timestamp or None, and None
\* for a string with no recognisable date and time such as 'garbage string'.
C14_NeverRaises ==
  Called => /\ pure_call.out.kind \in {"timestamp", "none"}
            /\ pure_call.shape.variant = "garbage" => pure_call.out = None

\* 'garbage string' answered with None
C14_Witness ==
  /\ Called
  /\ pure_call.arg = <<Word("garbage"), Blank, Word("string")>>
  /\ pure_call.out = None

\* C15: each single-irregularity variant of 'Month DD, YYYY at HH:MM:SS UTC' (no
\* space after 'at', a double space, a comma before 'at', no comma between day and
\* year) parses to the timestamp of the canonical string, which is the one written.
SingleIrregularities ==
  {"at_no_space", "comma_at", "no_comma",
   "double_1", "double_2", "double_3", "double_4", "double_5"}

C15_RepairsNormalise ==
  (/\ Called
   /\ pure_call.shape.variant \in SingleIrregularities
   /\ pure_call.shape.suffix = ""
   /\ pure_call.shape.zone = " UTC"
   /\ ValidDate(pure_call.shape))
  => /\ pure_call.out = parse_draw_datetime(Canonical(pure_call.shape))
     /\ pure_call.out = Returned(Written(pure_call.shape))

\* 'February 02 2022 at 15:48:39 UTC' parsed with hour 15
C15_Witness ==
  /\ Called
  /\ pure_call.shape.variant = "no_comma"
  /\ pure_call.arg # Canonical(pure_call.shape)
  /\ pure_call.shape.suffix = ""
  /\ pure_call.shape.zone = " UTC"
  /\ pure_call.out = Returned(Timestamp(2022, 2, 2, 15, 48, 39))

\* C16: a string with "202" more than once and an embedded 'YYYY-MM-DD HH:MM:SS'
\* yields the timestamp of the first such fragment, whatever the long date, the
\* suffix and the zone are; when the fragment is no date and time, the remaining
\* steps go on and yield what they find (the long date with the time).
FragmentParses(sh) ==
  \/ sh.variant = "dup" /\ sh.suffix # "PM" /\ ValidDate(sh)
  \/ sh.variant = "dup_other_day" /\ sh.suffix # "PM"
  \/ sh.variant = "dup_twice"

FirstFragment(sh) ==
  Timestamp(sh.year, MonthNumber(sh.month), IF sh.variant = "dup" THEN sh.day ELSE 1,
            sh.hour, 48, 39)

C16_DuplicatedFragment ==
  (/\ Called
   /\ pure_call.shape.variant \in DupVariants \ {"iso_only"}
   /\ count202(pure_call.arg) > 1)
  => IF FragmentParses(pure_call.shape)
     THEN pure_call.out = Returned(FirstFragment(pure_call.shape))
     ELSE /\ pure_call.out = remaining_steps(strip(pure_call.arg))
          /\ ValidDate(pure_call.shape) => pure_call.out = Returned(Written(pure_call.shape))

\* the fragment's day, not the long date's, is returned
C16_Witness ==
  /\ Called
  /\ pure_call.shape.variant = "dup_other_day"
  /\ count202(pure_call.arg) > 1
  /\ pure_call.shape.day # 1
  /\ pure_call.out.kind = "timestamp"
  /\ pure_call.out.ts.day = 1

\* C17: an AM/PM suffix after a time whose hour is 13 or more is removed before the
\* templates are tried and the parsed hour is the written one (the string parses as
\* it does when written without the suffix); after an hour below 13 the suffix is
\* left in place.
HasSuffix(str) == \E i \in 1..Len(str) : str[i].t = "word" /\ str[i].s \in AmPm
WithoutSuffix(sh) == Build([sh EXCEPT !.suffix = ""])

C17_ErroneousSuffixStripped ==
  (/\ Called
   /\ pure_call.shape.variant \in LongVariants
   /\ pure_call.shape.suffix # "")
  => IF pure_call.shape.hour >= 13
     THEN /\ ~HasSuffix(pure_call.repaired)
          /\ pure_call.out = parse_draw_datetime(WithoutSuffix(pure_call.shape))
          /\ pure_call.out.kind = "timestamp"
                => pure_call.out.ts.hour = pure_call.shape.hour
          /\ (ValidDate(pure_call.shape) /\ pure_call.shape.zone = " UTC")
                => pure_call.out.kind = "timestamp"
     ELSE HasSuffix(pure_call.repaired)

\* '15:48:39 AM' parsed with hour 15 from a string without the suffix
C17_Witness ==
  /\ Called
  /\ pure_call.shape.suffix = " AM"
  /\ pure_call.shape.hour = 15
  /\ HasSuffix(pure_call.arg)
  /\ ~HasSuffix(pure_call.repaired)
  /\ pure_call.out.kind = "timestamp"
  /\ pure_call.out.ts.hour = 15

\* ---- properties of analyze_draws (SpecSummary) -----------------------------------
Summarized == pure_call.fn = "analyze_draws"

\* C19: analyze_draws over a collection with zero rounds returns a summary in which
\* every numeric field is "N/A"; it does not end in a failure.
C19_EmptyInputGuard ==
  (Summarized /\ pure_call.arg = <<>>)
  => /\ pure_call.out.ok
     /\ pure_call.out.size = NoStats
     /\ pure_call.out.score = NoStats

\* C20: over a collection with rounds, the statistics of drawSize and of drawCRS are
\* those of the values that are there: a round without the field changes none of
\* them, each is "N/A" when no round has the field, and the coefficient of variation
\* is "N/A" when the mean is zero.
WithoutField(rounds, column) ==
  \A i \in 1..Len(rounds) : ~rounds[i][column].has

C20_AbsentExcluded ==
  (Summarized /\ pure_call.arg # <<>>)
  => /\ pure_call.out.ok
     /\ WithoutField(pure_call.arg, "drawSize") => pure_call.out.size = NoStats
     /\ WithoutField(pure_call.arg, "drawCRS") => pure_call.out.score = NoStats
     /\ \A column \in {"drawSize", "drawCRS"} :
          (notnull(pure_call.arg, column) # <<>> /\ sum(notnull(pure_call.arg, column)) = 0)
            => column_stats(pure_call.arg, column).coefficient_of_variation = NA
     /\ \A r \in StatRounds :
          (~r.drawSize.has /\ Len(pure_call.arg) < MaxRounds /\ pure_call.out.ok)
            => analysis_of(pure_call.arg \o <<r>>).size = pure_call.out.size

\* ---- properties of analyze_draw_times (SpecTimes) ---------------------------------
Analyzed == pure_call.fn = "analyze_draw_times"

\* the positions of the draws whose drawDateTime parses, and those at hour h
ParsedDraws(draws) ==
  {i \in 1..Len(draws) : parsed_time(draws[i]).kind = "timestamp"}
DrawsAtHour(draws, h) == {i \in ParsedDraws(draws) : parsed_time(draws[i]).ts.hour = h}

\* the hours of the histogram with the greatest count
TopHours(slots) == {h \in 0..23 : \A g \in 0..23 : slots[g] <= slots[h]}

\* s..e is a maximal run of consecutive hours of the set
IsRun(hours, s, e) ==
  /\ s <= e
  /\ \A h \in s..e : h \in hours
  /\ (s - 1) \notin hours
  /\ (e + 1) \notin hours

\* C21: the reported mode is the longest maximal run of consecutive hours among the
\* hours with the maximum count, the earliest of the longest ones, written as
\* [start, end + 1) on the 12-hour clock; hours 14 and 15 alone at the maximum give
\* "2 PM - 4 PM".
C21_ModeRange ==
  (Analyzed /\ pure_call.out.total_draws_with_times > 0)
  => LET top == TopHours(pure_call.out.hour_distribution)
     IN  /\ \E s \in top, e \in top :
              /\ IsRun(top, s, e)
              /\ \A s2 \in top, e2 \in top :
                   IsRun(top, s2, e2)
                     => (e2 - s2 < e - s \/ (e2 - s2 = e - s /\ s <= s2))
              /\ pure_call.out.most_common_hour
                   = fmt_hour(s) \o " - " \o fmt_hour(e + 1)
         /\ top = {14, 15} => pure_call.out.most_common_hour = "2 PM - 4 PM"

\* draws at 14 and at 15 o'clock, as many of each, reported as "2 PM - 4 PM"
C21_Witness ==
  /\ Analyzed
  /\ pure_call.out.total_draws_with_times > 0
  /\ TopHours(pure_call.out.hour_distribution) = {14, 15}
  /\ pure_call.out.most_common_hour = "2 PM - 4 PM"

\* C22: whenever a draw parsed, average_hour is the count-weighted mean of the hour
\* rounded to 2 decimals (here in hundredths); it is "not available" only when none
\* parsed.
C22_AverageHour ==
  Analyzed
  => LET n == Cardinality(ParsedDraws(pure_call.arg))
         total == weighted_sum([h \in 0..23 |->
                                  Cardinality(DrawsAtHour(pure_call.arg, h))], 0)
     IN  IF n > 0
         THEN pure_call.out.average_hour = Value((200 * total + n) \div (2 * n), 100)
         ELSE pure_call.out.average_hour = NA

\* C23: the draws whose drawDateTime cannot be parsed are counted in an unparsed count
\* of the time-analysis output, and the draws after them are still processed.
C23_UnparsedCountSurfaced ==
  Analyzed
  => /\ pure_call.out.total_draws_with_times = Cardinality(ParsedDraws(pure_call.arg))
     /\ "unparsed_count" \in DOMAIN pure_call.out
     /\ pure_call.out.unparsed_count
          = Len(pure_call.arg) - Cardinality(ParsedDraws(pure_call.arg))

RECURSIVE SlotSum(_, _)
SlotSum(slots, h) == IF h > 23 THEN 0 ELSE slots[h] + SlotSum(slots, h + 1)

\* C24: hour_distribution has the 24 slots 0..23; slot h counts the draws that parse
\* to hour h, a draw that does not parse is in no slot, and the slots add up to
\* total_draws_with_times, the number of timeline entries.
C24_HourHistogram ==
  Analyzed
  => /\ DOMAIN pure_call.out.hour_distribution = 0..23
     /\ \A h \in 0..23 :
          pure_call.out.hour_distribution[h]
            = Cardinality(DrawsAtHour(pure_call.arg, h))
     /\ SlotSum(pure_call.out.hour_distribution, 0)
          = pure_call.out.total_draws_with_times
     /\ Cardinality(ParsedDraws(pure_call.arg)) = pure_call.out.total_draws_with_times
     /\ Len(pure_call.out.draw_timeline) = pure_call.out.total_draws_with_times
     /\ {pure_call.out.draw_timeline[i].drawNumber :
           i \in 1..Len(pure_call.out.draw_timeline)} = ParsedDraws(pure_call.arg)

\* a collection with a draw that parses and one that does not
C24_Witness ==
  /\ Analyzed
  /\ ParsedDraws(pure_call.arg) # {}
  /\ \E i \in 1..Len(pure_call.arg) :
       pure_call.arg[i].has /\ pure_call.arg[i].str # <<>> /\ i \notin ParsedDraws(pure_call.arg)
  /\ pure_call.out.total_draws_with_times = Cardinality(ParsedDraws(pure_call.arg))

\* ---- properties of the derived outputs (Spec) --------------------------------------
\* the analysis step of an invocation whose synchronization changed the collection,
\* analyze_draws returning the analysis
AnalysisAfterChange ==
  /\ pc = "analyze"
  /\ inv.sync = "changed"
  /\ last'.op = "analyze_draws"
  /\ last'.ret[1]
  /\ AutoAnalyze

\* C25: an analysis run that follows a synchronization which changed the collection
\* leaves analysis.json and time_analysis.json both computed from the new collection,
\* never one of them new and the other from an earlier collection.
C25_RegeneratedTogether ==
  [][AnalysisAfterChange
       => /\ analysis_json'.kind = "json"
          /\ analysis_json'.total = Len(ee_json.rounds)
          /\ time_analysis_json'.kind = "json"
          /\ time_analysis_json'.total = Len(ee_json.rounds)]_vars

\* ---- properties of process_draw_data (SpecProjection) ------------------------------
Projected == pure_call.fn = "process_draw_data"

\* the row is the projection of the raw round: the recognized keys of the round with
\* their values, the recognized keys it lacks absent or NaN, nothing else
ProjectionOf(row, round) ==
  /\ DOMAIN row \subseteq selected_columns
  /\ \A c \in selected_columns :
       IF c \in DOMAIN round THEN c \in DOMAIN row /\ row[c] = round[c]
       ELSE c \in DOMAIN row => row[c] = Missing

\* the frame holds the projections of the rounds, one row for each
ProjectionsOf(df, rounds_data) ==
  /\ df.ok
  /\ Len(df.rows) = Len(rounds_data)
  /\ \E p \in [1..Len(rounds_data) -> 1..Len(rounds_data)] :
       /\ \A i, j \in 1..Len(rounds_data) : p[i] = p[j] => i = j
       /\ \A i \in 1..Len(rounds_data) : ProjectionOf(df.rows[i], rounds_data[p[i]])

\* C26: the projection of raw rounds keeps the recognized fields only, drops the
\* unknown ones without error, leaves a recognized field that a round lacks absent
\* (never 0 or another default), and does not fail because of a missing field.
C26_ColumnProjection ==
  (Projected /\ pure_call.arg # <<>>)
  => /\ ProjectionsOf(pure_call.out, pure_call.arg)
     /\ ProjectionsOf(pure_call.script, pure_call.arg)

\* the same for the manager alone, when some round carries a drawDate
ProjectsWhenDated ==
  (Projected /\ \E i \in 1..Len(pure_call.arg) : "drawDate" \in DOMAIN pure_call.arg[i])
  => ProjectionsOf(pure_call.out, pure_call.arg)

\* ---- properties of get_latest_draws and of the pipeline (Spec) ----------------------
\* round a is more recent than round b: a later date, or the same date and a greater
\* number (a round without a date is older than every dated one)
MoreRecent(a, b) ==
  \/ a.drawDate > b.drawDate
  \/ a.drawDate = b.drawDate /\ a.drawNumber > b.drawNumber

\* C27: for every persisted collection with at least one record, get_latest_draws
\* returns as latest the most recent record and as previous the next most recent one,
\* None when there is a single record, whatever the order of the feed was.
C27_LatestDraws ==
  (ee_json.kind = "json" /\ Len(ee_json.rounds) >= 1)
  => LET d == get_latest_draws(ee_json)
         rounds == {ee_json.rounds[i] : i \in 1..Len(ee_json.rounds)}
     IN  /\ d.latest # <<>>
         /\ \A r \in rounds \ {d.latest[1]} : MoreRecent(d.latest[1], r)
         /\ IF Len(ee_json.rounds) = 1 THEN d.previous = <<>>
            ELSE /\ d.previous # <<>>
                 /\ d.previous[1] # d.latest[1]
                 /\ \A r \in rounds \ {d.latest[1], d.previous[1]} :
                      MoreRecent(d.previous[1], r)

\* the stage ran in this invocation and did not fail
Succeeded(stage) == \E i \in 1..Len(inv.stages) : inv.stages[i] = [stage |-> stage, ok |-> TRUE]

\* C28: an invocation in which the freshness check reported new data and both the
\* synchronization and the analysis succeeded has invoked send_email when it ends,
\* also when the collection has one record only or the latest record has no date;
\* format_draw_info gives its 7 values for every draw record.
C28_NotificationAttempted ==
  (pc = "end" /\ inv.needs_update /\ Succeeded("update_data") /\ Succeeded("analyze_draws"))
  => /\ "send_email" \in StagesRun
     /\ format_draw_info_ok(get_latest_draws(ee_json).latest,
                            get_latest_draws(ee_json).previous)

\* a step of the running script
ScriptStep == pc \notin {"idle", "done"} /\ pc' # pc

\* C29: in one invocation of the script, with the feed answering update_data as it
\* answered the freshness check, EE.json is modified only when the feed lists strictly
\* more records than the persisted collection holds; when it lists as many or fewer,
\* or the fetch fails, EE.json, analysis.json and time_analysis.json stay as they
\* were and send_email is not called.
C29_WritesOnlyOnGrowth ==
  [][ScriptStep
       => /\ (\/ ee_json' # ee_json
               \/ analysis_json' # analysis_json
               \/ time_analysis_json' # time_analysis_json
               \/ pc = "email") => inv.needs_update
          /\ pc = "check"
               => (inv'.needs_update <=> /\ last'.failed = "none"
                                         /\ last'.ret[3] > existing_count(ee_json))
          /\ (/\ pc = "update"
              /\ ee_json' # ee_json
              /\ last'.data.ok
              /\ Len(last'.data.rounds) = last.ret[3])
               => Len(last'.data.rounds) > existing_count(ee_json)]_vars

\* an invocation that found a feed of as many or fewer records than the collection
\* holds and ended after the freshness check
C29_Witness ==
  /\ pc = "end"
  /\ ~inv.needs_update
  /\ inv.stages = <<[stage |-> "check_data_freshness", ok |-> TRUE]>>
  /\ last.op = "check_data_freshness"
  /\ ee_json.kind = "json"
  /\ last.ret[2] >= 1
  /\ last.ret[3] <= last.ret[2]

\* ---- properties of the manager of src/Data/Draws.py (SpecCsv) -----------------------
\* C30: whenever EE.json and EE.csv both exist, EE.csv holds the projection of
\* exactly the rounds of EE.json; no update_data leaves one of the two files written
\* from a newer fetch than the other.
C30_CsvJsonConsistent ==
  (ee_json.kind = "json" /\ ee_csv.kind = "csv")
  => /\ process_draw_data(ee_json.rounds).ok
     /\ ee_csv.rows = process_draw_data(ee_json.rounds).df
====
